---- MODULE Spec2Model ----
(***************************************************************************)
(* Model of the ETL loader of src/etl.py: load_table, log_event, main and  *)
(* the helpers they use, over a PostgreSQL connection opened by psycopg2   *)
(* (autocommit off).                                                       *)
(*                                                                         *)
(* The database is modelled by what the calls of the source do to it:      *)
(*   db      the committed contents of the six destination tables          *)
(*   pend    the contents as seen inside the connection's transaction      *)
(*   tx      the connection's transaction status: "idle" (none open),      *)
(*           "intrans" (open), "inerror" (open and aborted by a failed     *)
(*           statement: every further statement raises until the           *)
(*           transaction is ended by commit() or rollback(), and commit()  *)
(*           of an aborted transaction rolls it back without raising)      *)
(*   log     the committed rows of LOGS.etl_log                            *)
(* A row that the destination table's schema rejects carries viol = TRUE;  *)
(* the schema itself is not part of the source.                            *)
(***************************************************************************)
EXTENDS Integers, Sequences, FiniteSets, Bags, TLC

\* ---------------------------------------------------------------- bounds
MaxLen == 2      \* rows in a csv file
MaxCalls == 3    \* calls of load_table on one connection (Spec)

\* ------------------------------------------------------------- constants
NULL == "<null>"

BALANCE == "ds.ft_balance_f"
POSTING == "ds.ft_posting_f"
ACCOUNT == "ds.md_account_d"
CURRENCY == "ds.md_currency_d"
EXCHANGE == "ds.md_exchange_rate_d"
LEDGER == "ds.md_ledger_account_s"

\* main's files dict, in insertion order
TableOrder == <<BALANCE, POSTING, ACCOUNT, CURRENCY, EXCHANGE, LEDGER>>

Tables == {TableOrder[n] : n \in 1..Len(TableOrder)}

\* tables for which load_table builds upsert_query(pk_cols)
PkTables == {BALANCE, ACCOUNT, CURRENCY, EXCHANGE, LEDGER}

\* the two columns load_table requires of ds.md_exchange_rate_d
required == {"data_actual_date", "currency_rk"}

AllCols == {"data_actual_date", "currency_rk", "currency_code", "code_iso_char"}

\* ------------------------------------------------------ sequence helpers
RECURSIVE SelectIdx(_, _, _)
\* the subsequence of s at the positions n >= from that are in keep
SelectIdx(s, from, keep) ==
    IF from > Len(s) THEN <<>>
    ELSE (IF from \in keep THEN <<s[from]>> ELSE <<>>) \o SelectIdx(s, from + 1, keep)

Range(s) == {s[n] : n \in 1..Len(s)}

\* ----------------------------------------------------- column-name lower
\* str.lower() on a header name
Lower(name) ==
    CASE name = "DATA_ACTUAL_DATE" -> "data_actual_date"
      [] name = "CURRENCY_RK" -> "currency_rk"
      [] name = "CURRENCY_CODE" -> "currency_code"
      [] name = "CODE_ISO_CHAR" -> "code_iso_char"
      [] OTHER -> name

\* ------------------------------------------------------------ parse_dates
\* pd.to_datetime(errors='coerce', dayfirst=True) followed by .date():
\* a parsable text gives its calendar date, anything else gives None
ParseDate(cell) ==
    CASE cell = "01.01.2018" -> "2018-01-01"
      [] cell = "02.01.2018" -> "2018-01-02"
      [] OTHER -> NULL

\* ------------------------------------------------------- read_csv_safe
\* A text cell of a file is a sequence of bytes: an ASCII byte is written as
\* its character, a byte above 0x7F as "xNN".  The characters outside ASCII
\* are named: "e-acute", "CYR-TSE", ...
HighBytes == {"xC3", "xA9", "xD6", "x98"}

RECURSIVE DecodesUtf8(_)
\* 0xC3 0xA9 is a two-byte sequence, any other byte above 0x7F is invalid
DecodesUtf8(b) ==
    IF b = <<>> THEN TRUE
    ELSE IF Len(b) >= 2 /\ b[1] = "xC3" /\ b[2] = "xA9" THEN DecodesUtf8(SubSeq(b, 3, Len(b)))
    ELSE Head(b) \notin HighBytes /\ DecodesUtf8(Tail(b))

RECURSIVE DecodeUtf8(_)
DecodeUtf8(b) ==
    IF b = <<>> THEN <<>>
    ELSE IF Len(b) >= 2 /\ b[1] = "xC3" /\ b[2] = "xA9"
    THEN <<"e-acute">> \o DecodeUtf8(SubSeq(b, 3, Len(b)))
    ELSE <<Head(b)>> \o DecodeUtf8(Tail(b))

\* the character of one byte in a single-byte code page
Cp1251Char(c) ==
    CASE c = "xC3" -> "CYR-GHE"
      [] c = "xA9" -> "copyright"
      [] c = "xD6" -> "CYR-TSE"
      [] OTHER -> c

Latin1Char(c) ==
    CASE c = "xC3" -> "A-tilde"
      [] c = "xA9" -> "copyright"
      [] c = "xD6" -> "O-umlaut"
      [] c = "x98" -> "C1-98"
      [] OTHER -> c

\* whether the bytes decode under an encoding: 0x98 is undefined in cp1251,
\* ISO-8859-1 defines every byte
Decodes(b, enc) ==
    CASE enc = "utf-8" -> DecodesUtf8(b)
      [] enc = "cp1251" -> \A n \in 1..Len(b) : b[n] # "x98"
      [] OTHER -> TRUE

Decode(b, enc) ==
    CASE enc = "utf-8" -> DecodeUtf8(b)
      [] enc = "cp1251" -> [n \in 1..Len(b) |-> Cp1251Char(b[n])]
      [] OTHER -> [n \in 1..Len(b) |-> Latin1Char(b[n])]

\* encodings gone wrong: ISO-8859-1 tried before cp1251
encodingsBroken == <<"utf-8", "ISO-8859-1", "cp1251">>

encodings == <<"utf-8", "cp1251", "ISO-8859-1">>

\* pd.read_csv(csv_path, encoding=enc) raises UnicodeDecodeError
FileDecodes(file, enc) == \A n \in 1..Len(file.rows) : Decodes(file.rows[n].iso, enc)

RECURSIVE TryEncodings(_, _)
\* the loop of lines 41-45 from the n-th encoding on; line 46 after the last
TryEncodings(file, n) ==
    IF n > Len(encodings) THEN [err |-> "encodings", enc |-> "none"]
    ELSE IF FileDecodes(file, encodings[n]) THEN [err |-> "", enc |-> encodings[n]]
    ELSE TryEncodings(file, n + 1)

\* the encoding of the first parse that succeeds; an error that is no
\* UnicodeDecodeError (the file cannot be read) leaves at once
read_csv_safe(file) ==
    IF ~file.readable THEN [err |-> "read", enc |-> "none"] ELSE TryEncodings(file, 1)

\* pandas infers a numeric column only when every non-empty cell of the
\* column is a number; otherwise every cell of the column stays text.
NumericText == {"840", "978"}

ColumnIsNumeric(rows) == \A n \in 1..Len(rows) : rows[n].code \in NumericText \cup {""}

\* the cell of column currency_code as the data frame holds it
CodeCell(text, numeric) ==
    IF text = "" THEN [kind |-> "null", text |-> NULL]
    ELSE IF numeric THEN [kind |-> "num", text |-> text]
    ELSE [kind |-> "str", text |-> text]

\* the data frame of a file parsed under enc: one record per row, idx = the
\* row's index label
ReadFrame(csv, enc) ==
    [n \in 1..Len(csv.rows) |->
        [idx |-> n - 1,
         date |-> csv.rows[n].date,
         rk |-> csv.rows[n].rk,
         code |-> CodeCell(csv.rows[n].code, ColumnIsNumeric(csv.rows)),
         iso |-> Decode(csv.rows[n].iso, enc),
         viol |-> csv.rows[n].viol]]

\* ------------------------------------------------- normalisation (74-78)
ParseDates(df) == [n \in 1..Len(df) |-> [df[n] EXCEPT !.date = ParseDate(df[n].date)]]

\* DropNaDates gone wrong: no row is dropped
DropNaDatesBroken(df) == df

\* df.dropna(subset = the date columns)
DropNaDates(df) == SelectIdx(df, 1, {n \in 1..Len(df) : df[n].date # NULL})

\* -------------------------------------------------- drop_duplicates (84)
KeyOf(r) == <<r.date, r.rk>>

\* keeps the first row of every (data_actual_date, currency_rk)
DropDuplicates(df) ==
    SelectIdx(df, 1, {n \in 1..Len(df) : \A m \in 1..(n - 1) : KeyOf(df[m]) # KeyOf(df[n])})

\* ---------------------------------------- currency validation (86-110)
Letters == {"U", "S", "D", "E", "R", "u", "s", "d",
            "e-acute", "E-acute", "CYR-TSE", "CYR-GHE", "O-umlaut", "A-tilde"}

Upper(c) ==
    CASE c = "u" -> "U"
      [] c = "s" -> "S"
      [] c = "d" -> "D"
      [] c = "e-acute" -> "E-acute"
      [] OTHER -> c

RECURSIVE IsoReduce(_)
\* ''.join(filter(str.isalpha, str(iso))).upper()
IsoReduce(iso) ==
    IF iso = <<>> THEN <<>>
    ELSE (IF Head(iso) \in Letters THEN <<Upper(Head(iso))>> ELSE <<>>)
         \o IsoReduce(Tail(iso))

\* an empty field is read as NaN
IsoIsNull(iso) == iso = <<>>

\* Reasons gone wrong: the check of code_iso_char is left out
ReasonsBroken(row) == IF row.code.kind # "num" THEN <<"currency_code">> ELSE <<>>

\* the reasons list of one row
Reasons(row) ==
    (IF row.code.kind # "num" THEN <<"currency_code">> ELSE <<>>)
    \o (IF IsoIsNull(row.iso) THEN <<"code_iso_char=None">>
        ELSE IF Len(IsoReduce(row.iso)) = 3 THEN <<>>
        ELSE <<"code_iso_char">>)

\* df.at[idx, 'code_iso_char'] = iso_str for the rows whose code reduces to 3 letters
FixIso(row) ==
    IF ~IsoIsNull(row.iso) /\ Len(IsoReduce(row.iso)) = 3
    THEN [row EXCEPT !.iso = IsoReduce(row.iso)]
    ELSE row

\* the indices collected in bad_rows
BadRows(df) == {df[n].idx : n \in {m \in 1..Len(df) : Reasons(df[m]) # <<>>}}

\* df.drop(index=bad_rows), on the frame with the corrected iso codes
ValidateCurrency(df) ==
    SelectIdx([n \in 1..Len(df) |-> FixIso(df[n])], 1,
              {n \in 1..Len(df) : df[n].idx \notin BadRows(df)})

\* the lines log_bad_row appends, in iterrows order
BadRowLines(table_name, df) ==
    LET bad == SelectIdx(df, 1, {n \in 1..Len(df) : Reasons(df[n]) # <<>>})
    IN [n \in 1..Len(bad) |->
          [table |-> table_name, line |-> bad[n].idx + 2,
           row |-> bad[n], reasons |-> Reasons(bad[n])]]

\* ------------------------------------------------------ convert_value
RECURSIVE LStrip(_)
LStrip(s) == IF s # <<>> /\ Head(s) = " " THEN LStrip(Tail(s)) ELSE s

RECURSIVE RStrip(_)
RStrip(s) == IF s # <<>> /\ s[Len(s)] = " " THEN RStrip(SubSeq(s, 1, Len(s) - 1)) ELSE s

\* str(v).strip() on a text cell; None for a null cell
ConvertIso(iso) == IF IsoIsNull(iso) THEN <<>> ELSE RStrip(LStrip(iso))

\* values: one tuple per row of df
Values(df) == [n \in 1..Len(df) |-> [df[n] EXCEPT !.iso = ConvertIso(df[n].iso)]]

\* ------------------------------------------------------------ database
\* a row as the destination table stores it
Stored(v) == [date |-> v.date, rk |-> v.rk, code |-> v.code, iso |-> v.iso]

\* InsertRow gone wrong: the plain INSERT for every table
InsertRowAppendOnly(table_name, content, v) == content (+) SetToBag({Stored(v)})

\* one row through the statement built at lines 119-138: with ON CONFLICT
\* (pk_cols) DO UPDATE the row replaces the stored row of its key, with the
\* plain INSERT it is appended
InsertRow(table_name, content, v) ==
    IF table_name \in PkTables
    THEN [r \in {x \in DOMAIN content : KeyOf(x) # KeyOf(v)} |-> content[r]]
         (+) SetToBag({Stored(v)})
    ELSE content (+) SetToBag({Stored(v)})

RECURSIVE InsertAll(_, _, _, _)
InsertAll(table_name, content, vals, from) ==
    IF from > Len(vals) THEN content
    ELSE InsertAll(table_name, InsertRow(table_name, content, vals[from]), vals, from + 1)

\* cur.execute(row_query, row) raises on a row the schema rejects
RowRaises(v) == v.viol

\* execute_values raises when some row is rejected, or when an upsert
\* statement is given two rows of one key (ON CONFLICT DO UPDATE cannot
\* affect a row a second time)
BulkRaises(table_name, vals) ==
    \/ \E n \in 1..Len(vals) : RowRaises(vals[n])
    \/ /\ table_name \in PkTables
       /\ \E m, n \in 1..Len(vals) : m < n /\ KeyOf(vals[m]) = KeyOf(vals[n])

\* ------------------------------------------------------------- inputs
USD == <<"U", "S", "D">>

RowA == [date |-> "01.01.2018", rk |-> 1, code |-> "840", iso |-> USD, viol |-> FALSE]

\* the key of RowA with another payload
RowB == [date |-> "01.01.2018", rk |-> 1, code |-> "978", iso |-> <<"E", "U", "R">>, viol |-> FALSE]

\* an iso code that reduces to USD
RowC == [date |-> "01.01.2018", rk |-> 2, code |-> "840", iso |-> <<" ", "u", "s", "-", "d">>, viol |-> FALSE]

\* an unparsable date
RowD == [date |-> "n/a", rk |-> 2, code |-> "840", iso |-> USD, viol |-> FALSE]

\* a row the destination table rejects
RowE == [date |-> "01.01.2018", rk |-> 2, code |-> "840", iso |-> USD, viol |-> TRUE]

\* a non-numeric currency_code
RowF == [date |-> "01.01.2018", rk |-> 2, code |-> "abc", iso |-> USD, viol |-> FALSE]

\* an empty currency_code and an iso code of two letters
RowG == [date |-> "01.01.2018", rk |-> 2, code |-> "", iso |-> <<"U", "S">>, viol |-> FALSE]

\* an empty code_iso_char
RowH == [date |-> "01.01.2018", rk |-> 2, code |-> "840", iso |-> <<>>, viol |-> FALSE]

\* an unparsable date, a non-numeric currency_code and an empty code_iso_char
RowI == [date |-> "n/a", rk |-> 2, code |-> "abc", iso |-> <<>>, viol |-> FALSE]

\* rows with a cell outside ASCII: e-acute in utf-8, TSE in cp1251, and the
\* byte 0x98, which neither utf-8 nor cp1251 decodes
RowU8 == [date |-> "01.01.2018", rk |-> 1, code |-> "840", iso |-> <<"xC3", "xA9">>, viol |-> FALSE]

RowCp == [date |-> "01.01.2018", rk |-> 2, code |-> "840", iso |-> <<"xD6">>, viol |-> FALSE]

RowL1 == [date |-> "01.01.2018", rk |-> 1, code |-> "840", iso |-> <<"x98">>, viol |-> FALSE]

RowsOf(table_name) ==
    IF table_name = CURRENCY
    THEN {RowA, RowB, RowC, RowD, RowE, RowF, RowG, RowH, RowI}
    ELSE {RowA, RowB, RowC, RowD, RowE}

SeqsUpTo(S, n) == UNION {[1..m -> S] : m \in 0..n}

Unreadable == [readable |-> FALSE, header |-> {}, rows |-> <<>>]

\* the csv files a table's path may hold
FilesOf(table_name) ==
    {[readable |-> TRUE, header |-> AllCols, rows |-> rs] : rs \in SeqsUpTo(RowsOf(table_name), MaxLen)}
    \cup {Unreadable}
    \cup (IF table_name = CURRENCY THEN {}
          ELSE {[readable |-> TRUE, header |-> AllCols, rows |-> rs] :
                   rs \in SeqsUpTo({RowU8, RowCp, RowL1}, MaxLen) \ {<<>>}})
    \cup (IF table_name = EXCHANGE
          THEN {[readable |-> TRUE, header |-> h, rows |-> <<RowA, RowB>>] :
                   h \in {{"DATA_ACTUAL_DATE", "CURRENCY_RK", "CURRENCY_CODE", "CODE_ISO_CHAR"},
                          AllCols \ {"currency_rk"}, AllCols \ {"data_actual_date"}}}
          ELSE {})

\* the files of a run of main
MainFiles ==
    {Unreadable,
     [readable |-> TRUE, header |-> AllCols, rows |-> <<RowA>>]}

OldRow(k) == [date |-> "2018-01-01", rk |-> k, code |-> [kind |-> "num", text |-> "643"],
              iso |-> <<"R", "U", "R">>]

\* the destination tables before the first load: a row of the key of RowC
\* (and of RowE .. RowH) and a row of a key no file has
InitDB == [t \in Tables |-> SetToBag({OldRow(2), OldRow(3)})]

\* --------------------------------------------------------------- state
VARIABLES
    db,           \* committed contents of the destination tables
    pend,         \* contents as seen inside the open transaction
    tx,           \* "idle" | "intrans" | "inerror"
    log,          \* committed rows of LOGS.etl_log (a bag)
    audit,        \* the lines of logs/bad_rows.log
    pc,           \* position inside load_table, "idle" between calls
    table,        \* load_table's table_name
    csv,          \* the file at csv_path
    df,           \* the data frame
    i,            \* position of the row-by-row loop (1-based)
    failed_rows,
    err,          \* the exception caught at line 160
    status,       \* the status handed to log_event by this call
    idx,          \* main: position of the for loop in files
    closed,       \* main: conn.close() has run
    calls,        \* calls of load_table so far
    attempted,    \* the tables load_table was called with, in call order
    before,       \* history: db when the current call began
    logBefore,    \* history: log when the current call began
    txAtCall,     \* history: tx when the current call began
    bulkOk,       \* history: execute_values returned without raising
    logWrite,     \* history: how this call's log_event ended, "none" before it
    sent,         \* history: rows handed to an insert statement by this call
    prev,         \* history: the call before the current one
    trace         \* history: the statements this call ran on the connection

vars == <<db, pend, tx, log, audit, pc, table, csv, df, i, failed_rows, err, status,
          idx, closed, calls, attempted, before, logBefore, txAtCall, bulkOk, logWrite, sent, prev,
          trace>>

\* one statement of the trace: n is the file row of a row-level insert
Op(op, n, raised) == [op |-> op, n |-> n, raised |-> raised]

NoPrev == [valid |-> FALSE, after |-> EmptyBag, status |-> "none", txAtCall |-> "idle",
           logWrite |-> "none"]

InitCommon ==
    /\ db = InitDB
    /\ pend = InitDB
    /\ tx = "idle"
    /\ log = EmptyBag
    /\ audit = <<>>
    /\ pc = "idle"
    /\ df = <<>>
    /\ i = 0
    /\ failed_rows = 0
    /\ err = ""
    /\ status = "none"
    /\ closed = FALSE
    /\ calls = 0
    /\ attempted = <<>>
    /\ before = InitDB
    /\ logBefore = EmptyBag
    /\ txAtCall = "idle"
    /\ bulkOk = FALSE
    /\ logWrite = "none"
    /\ sent = {}
    /\ prev = NoPrev
    /\ trace = <<>>

\* a connection on which load_table is called repeatedly for one table and
\* one file
Init ==
    /\ InitCommon
    /\ table \in Tables
    /\ csv \in FilesOf(table)
    /\ idx = 0

\* main, before its for loop
MainInit ==
    /\ InitCommon
    /\ table = "none"
    /\ csv = Unreadable
    /\ idx = 1

\* ------------------------------------------------------------ load_table
\* lines 69-72: entry of load_table
Enter ==
    /\ pc' = "prepare"
    /\ calls' = calls + 1
    /\ attempted' = Append(attempted, table')
    /\ before' = db
    /\ logBefore' = log
    /\ txAtCall' = tx
    /\ bulkOk' = FALSE
    /\ logWrite' = "none"
    /\ sent' = {}
    /\ df' = <<>>
    /\ i' = 0
    /\ failed_rows' = 0
    /\ err' = ""
    /\ status' = "none"
    /\ trace' = <<>>
    /\ prev' = IF calls = 0 THEN NoPrev
               ELSE [valid |-> TRUE, after |-> db[table], status |-> status,
                     txAtCall |-> txAtCall, logWrite |-> logWrite]
    /\ UNCHANGED <<db, pend, tx, log, audit, closed>>

\* a further call of load_table with the same table and file
Call ==
    /\ pc = "idle"
    /\ calls < MaxCalls
    /\ UNCHANGED <<table, csv, idx>>
    /\ Enter

\* lines 74-110 as a function of the file: the exception raised, or the
\* cleaned frame and the lines written to bad_rows.log
Cleaned(table_name, file) ==
    LET cols == {Lower(c) : c \in file.header}
        read == read_csv_safe(file)
        df0 == ReadFrame(file, read.enc)
        df1 == IF "data_actual_date" \in cols THEN DropNaDates(ParseDates(df0)) ELSE df0
        df2 == IF table_name = EXCHANGE THEN DropDuplicates(df1) ELSE df1
    IN  IF read.err # ""
        THEN [err |-> read.err, df |-> <<>>, bad |-> <<>>]
        ELSE IF table_name = EXCHANGE /\ ~(required \subseteq cols)
        THEN [err |-> "columns", df |-> <<>>, bad |-> <<>>]
        ELSE IF table_name = CURRENCY
        THEN [err |-> "", df |-> ValidateCurrency(df2), bad |-> BadRowLines(table_name, df2)]
        ELSE [err |-> "", df |-> df2, bad |-> <<>>]

\* lines 74-110
Prepare ==
    /\ pc = "prepare"
    /\ \E c \in {Cleaned(table, csv)} :
           /\ err' = c.err
           /\ df' = c.df
           /\ audit' = audit \o c.bad
           /\ pc' = IF c.err # "" THEN "except" ELSE "delete"
    /\ UNCHANGED <<db, pend, tx, log, table, csv, i, failed_rows, status, idx, closed,
                   calls, attempted, before, logBefore, txAtCall, bulkOk, logWrite, sent, prev, trace>>

\* PreDelete gone wrong: ds.ft_posting_f emptied in the load of any table
PreDeleteAnyTable ==
    /\ pc = "delete"
    /\ pc' = "bulk"
    /\ tx' = IF tx = "inerror" THEN "inerror" ELSE "intrans"
    /\ pend' = IF tx = "inerror" THEN pend ELSE [pend EXCEPT ![POSTING] = EmptyBag]
    /\ trace' = IF table = POSTING THEN Append(trace, Op("delete", 0, FALSE)) ELSE trace
    /\ UNCHANGED <<db, err, log, audit, table, csv, df, i, failed_rows, status, idx, closed,
                   calls, attempted, before, logBefore, txAtCall, bulkOk, logWrite, sent, prev>>

\* PreDelete gone wrong: the DELETE committed at once, in a transaction of
\* its own
PreDeleteBroken ==
    /\ pc = "delete"
    /\ pc' = "bulk"
    /\ IF table = POSTING
       THEN /\ db' = [db EXCEPT ![POSTING] = EmptyBag]
            /\ pend' = [db EXCEPT ![POSTING] = EmptyBag]
       ELSE UNCHANGED <<db, pend>>
    /\ UNCHANGED <<tx, err, log, audit, table, csv, df, i, failed_rows, status, idx, closed,
                   calls, attempted, before, logBefore, txAtCall, bulkOk, logWrite, sent, prev, trace>>

\* lines 112-114: the DELETE raises in an aborted transaction, or for a
\* reason of the database's own (fault)
PreDelete ==
    /\ pc = "delete"
    /\ IF table = POSTING
       THEN \E fault \in BOOLEAN :
              IF tx = "inerror" \/ fault
              THEN /\ tx' = "inerror"
                   /\ err' = "delete"
                   /\ pc' = "except"
                   /\ pend' = pend
                   /\ trace' = Append(trace, Op("delete", 0, TRUE))
              ELSE /\ tx' = "intrans"
                   /\ pend' = [pend EXCEPT ![POSTING] = EmptyBag]
                   /\ pc' = "bulk"
                   /\ err' = err
                   /\ trace' = Append(trace, Op("delete", 0, FALSE))
       ELSE /\ pc' = "bulk"
            /\ UNCHANGED <<tx, pend, err, trace>>
    /\ UNCHANGED <<db, log, audit, table, csv, df, i, failed_rows, status, idx, closed,
                   calls, attempted, before, logBefore, txAtCall, bulkOk, logWrite, sent, prev>>

\* lines 116-145: execute_values sends nothing for an empty values list
BulkInsert ==
    /\ pc = "bulk"
    /\ LET values == Values(df)
       IN  IF Len(values) = 0
           THEN /\ pc' = "commit"
                /\ bulkOk' = TRUE
                /\ trace' = Append(trace, Op("bulk", 0, FALSE))
                /\ UNCHANGED <<tx, pend, sent, i, failed_rows>>
           ELSE IF tx = "inerror" \/ BulkRaises(table, values)
           THEN /\ tx' = "inerror"
                /\ pc' = "rows"
                /\ i' = 1
                /\ failed_rows' = 0
                /\ sent' = sent \cup Range(values)
                /\ trace' = Append(trace, Op("bulk", 0, TRUE))
                /\ UNCHANGED <<pend, bulkOk>>
           ELSE /\ tx' = "intrans"
                /\ pend' = [pend EXCEPT ![table] = InsertAll(table, pend[table], values, 1)]
                /\ pc' = "commit"
                /\ bulkOk' = TRUE
                /\ sent' = sent \cup Range(values)
                /\ trace' = Append(trace, Op("bulk", 0, FALSE))
                /\ UNCHANGED <<i, failed_rows>>
    /\ UNCHANGED <<db, log, audit, table, csv, df, err, status, idx, closed,
                   calls, attempted, before, logBefore, txAtCall, logWrite, prev>>

\* RowInsert gone wrong: the loop ends at the first row that raises
RowInsertBroken ==
    /\ pc = "rows"
    /\ LET values == Values(df)
           row == values[i]
           raises == tx = "inerror" \/ RowRaises(row)
       IN  /\ IF raises
              THEN /\ failed_rows' = failed_rows + 1
                   /\ tx' = "inerror"
                   /\ pend' = pend
              ELSE /\ pend' = [pend EXCEPT ![table] = InsertRow(table, pend[table], row)]
                   /\ tx' = "intrans"
                   /\ failed_rows' = failed_rows
           /\ trace' = Append(trace, Op("row", df[i].idx + 1, raises))
           /\ sent' = sent \cup {row}
           /\ i' = i + 1
           /\ pc' = IF i = Len(values) \/ raises THEN "commit" ELSE "rows"
    /\ UNCHANGED <<db, log, audit, table, csv, df, err, status, idx, closed,
                   calls, attempted, before, logBefore, txAtCall, bulkOk, logWrite, prev>>

\* lines 146-153: one turn of the row-by-row loop
RowInsert ==
    /\ pc = "rows"
    /\ LET values == Values(df)
           row == values[i]
       IN  /\ IF tx = "inerror" \/ RowRaises(row)
              THEN /\ failed_rows' = failed_rows + 1
                   /\ tx' = "inerror"
                   /\ pend' = pend
                   /\ trace' = Append(trace, Op("row", df[i].idx + 1, TRUE))
              ELSE /\ pend' = [pend EXCEPT ![table] = InsertRow(table, pend[table], row)]
                   /\ tx' = "intrans"
                   /\ failed_rows' = failed_rows
                   /\ trace' = Append(trace, Op("row", df[i].idx + 1, FALSE))
           /\ sent' = sent \cup {row}
           /\ i' = i + 1
           /\ pc' = IF i = Len(values) THEN "commit" ELSE "rows"
    /\ UNCHANGED <<db, log, audit, table, csv, df, err, status, idx, closed,
                   calls, attempted, before, logBefore, txAtCall, bulkOk, logWrite, prev>>

\* Commit gone wrong: no commit before the log entry, which is then written
\* in the transaction of the data
CommitDeferred ==
    /\ pc = "commit"
    /\ pc' = "log_success"
    /\ UNCHANGED <<db, pend, tx, trace, err, log, audit, table, csv, df, i, failed_rows, status,
                   idx, closed, calls, attempted, before, logBefore, txAtCall, bulkOk, logWrite,
                   sent, prev>>

\* Commit gone wrong: conn.commit() returns and the transaction is lost
CommitBroken ==
    /\ pc = "commit"
    /\ pc' = "log_success"
    /\ pend' = db
    /\ tx' = "idle"
    /\ trace' = Append(trace, Op("commit", 0, FALSE))
    /\ UNCHANGED <<db, err, log, audit, table, csv, df, i, failed_rows, status, idx, closed,
                   calls, attempted, before, logBefore, txAtCall, bulkOk, logWrite, sent, prev>>

\* line 155: conn.commit(); an open transaction may fail to commit (fault),
\* an aborted one is rolled back
Commit ==
    /\ pc = "commit"
    /\ \E fault \in BOOLEAN :
         IF fault /\ tx = "intrans"
         THEN /\ err' = "commit"
              /\ pc' = "except"
              /\ pend' = db
              /\ db' = db
              /\ trace' = Append(trace, Op("commit", 0, TRUE))
         ELSE /\ db' = IF tx = "intrans" THEN pend ELSE db
              /\ pend' = IF tx = "intrans" THEN pend ELSE db
              /\ pc' = "log_success"
              /\ err' = err
              /\ trace' = Append(trace, Op("commit", 0, FALSE))
    /\ tx' = "idle"
    /\ UNCHANGED <<log, audit, table, csv, df, i, failed_rows, status, idx, closed,
                   calls, attempted, before, logBefore, txAtCall, bulkOk, logWrite, sent, prev>>

\* lines 16-25: the INSERT may raise (outcome "execute": the exception is
\* swallowed and nothing ends the transaction it aborted)
log_event(table_name, row_count, st, message) ==
    \E outcome \in {"ok", "execute"} :
       IF tx = "inerror" \/ outcome = "execute"
       THEN /\ tx' = "inerror"
            /\ logWrite' = "execute"
            /\ trace' = Append(trace, Op("log", 0, TRUE))
            /\ UNCHANGED <<db, pend, log>>
       ELSE /\ tx' = "idle"
            /\ logWrite' = "ok"
            /\ db' = pend
            /\ pend' = pend
            /\ trace' = Append(trace, Op("log", 0, FALSE))
            /\ log' = log (+) SetToBag({[table_name |-> table_name, row_count |-> row_count,
                                          status |-> st, message |-> message]})

\* LogSuccess gone wrong: an exception after the SUCCESS entry reaches the
\* except clause
LogSuccessBroken ==
    /\ pc = "log_success"
    /\ status' = "SUCCESS"
    /\ log_event(table, Len(df), "SUCCESS", "")
    /\ pc' = "except"
    /\ UNCHANGED <<audit, table, csv, df, i, failed_rows, err, idx, closed,
                   calls, attempted, before, logBefore, txAtCall, bulkOk, sent, prev>>

\* lines 156-158
LogSuccess ==
    /\ pc = "log_success"
    /\ status' = "SUCCESS"
    /\ log_event(table, Len(df), "SUCCESS", "")
    /\ pc' = "idle"
    /\ UNCHANGED <<audit, table, csv, df, i, failed_rows, err, idx, closed,
                   calls, attempted, before, logBefore, txAtCall, bulkOk, sent, prev>>

\* Rollback gone wrong: the except clause without conn.rollback()
RollbackBroken ==
    /\ pc = "except"
    /\ pc' = "log_failure"
    /\ UNCHANGED <<db, pend, tx, log, audit, table, csv, df, i, failed_rows, err, status, idx,
                   closed, calls, attempted, before, logBefore, txAtCall, bulkOk, logWrite,
                   sent, prev, trace>>

\* lines 160-161
Rollback ==
    /\ pc = "except"
    /\ pend' = db
    /\ tx' = "idle"
    /\ trace' = Append(trace, Op("rollback", 0, FALSE))
    /\ pc' = "log_failure"
    /\ UNCHANGED <<db, log, audit, table, csv, df, i, failed_rows, err, status, idx, closed,
                   calls, attempted, before, logBefore, txAtCall, bulkOk, logWrite, sent, prev>>

\* LogFailure gone wrong: an exception of the FAILURE log write leaves
\* load_table and ends the process
LogFailureRaises ==
    /\ pc = "log_failure"
    /\ status' = "FAILURE"
    /\ log_event(table, 0, "FAILURE", err)
    /\ pc' = IF logWrite' = "ok" THEN "idle" ELSE "raised"
    /\ UNCHANGED <<audit, table, csv, df, i, failed_rows, err, idx, closed,
                   calls, attempted, before, logBefore, txAtCall, bulkOk, sent, prev>>

\* lines 162-164
LogFailure ==
    /\ pc = "log_failure"
    /\ status' = "FAILURE"
    /\ log_event(table, 0, "FAILURE", err)
    /\ pc' = "idle"
    /\ UNCHANGED <<audit, table, csv, df, i, failed_rows, err, idx, closed,
                   calls, attempted, before, logBefore, txAtCall, bulkOk, sent, prev>>

LoadStep ==
    \/ Prepare
    \/ PreDelete
    \/ BulkInsert
    \/ RowInsert
    \/ Commit
    \/ LogSuccess
    \/ Rollback
    \/ LogFailure

\* ------------------------------------------------------------------ main
\* lines 179-181: the next table of files, with the file at its path
MainCall ==
    /\ pc = "idle"
    /\ ~closed
    /\ idx <= Len(TableOrder)
    /\ table' = TableOrder[idx]
    /\ csv' \in MainFiles
    /\ idx' = idx + 1
    /\ Enter

\* line 183
MainClose ==
    /\ pc = "idle"
    /\ ~closed
    /\ idx > Len(TableOrder)
    /\ closed' = TRUE
    /\ tx' = "idle"
    /\ pend' = db
    /\ UNCHANGED <<db, log, audit, pc, table, csv, df, i, failed_rows, err, status, idx,
                   calls, attempted, before, logBefore, txAtCall, bulkOk, logWrite, sent, prev, trace>>

\* -------------------------------------------------------- specifications
Next == Call \/ LoadStep

Spec == Init /\ [][Next]_vars

MainNext == MainCall \/ LoadStep \/ MainClose

MainSpec == MainInit /\ [][MainNext]_vars

\* main runs to its end: a sequential program takes its next step
FairMainSpec == MainSpec /\ WF_vars(MainNext)

\* ---------------------------------------------------------------- claims
\* a call of load_table has returned
Done == pc = "idle" /\ calls > 0

\* the rows the current call added to LOGS.etl_log
Added == log (-) logBefore

Entry(row_count, st, message) ==
    [table_name |-> table, row_count |-> row_count, status |-> st, message |-> message]

Rejected(vals) == {n \in 1..Len(vals) : vals[n].viol}

DistinctKeys(vals) == \A m, n \in 1..Len(vals) : m # n => KeyOf(vals[m]) # KeyOf(vals[n])

\* C1: when exactly one row of the cleaned batch is rejected by the table,
\* the load ends with a SUCCESS entry whose row_count is n - 1, one failed
\* row is counted and the other n - 1 rows are committed.
C1_BulkFailureIsolation ==
    (/\ Done
     /\ err = ""
     /\ txAtCall = "idle"
     /\ logWrite = "ok"
     /\ Cardinality(Rejected(Values(df))) = 1
     /\ DistinctKeys(Values(df)))
    => /\ failed_rows = 1
       /\ Added = SetToBag({Entry(Len(df) - 1, "SUCCESS", "")})
       /\ \A n \in 1..Len(df) :
             n \notin Rejected(Values(df)) => BagIn(Stored(Values(df)[n]), db[table])

\* C2: when an error escapes a stage of the load (read, missing columns,
\* DELETE, commit), the transaction is rolled back, the destination tables
\* hold what they held when the call began, and the entry logged for the
\* attempt is FAILURE with row_count 0 and the error text.
C2_FatalErrorRollsBack ==
    /\ pc = "log_failure" => (tx = "idle" /\ pend = db /\ db = before)
    /\ (Done /\ err # "") =>
          /\ db = before
          /\ status = "FAILURE"
          /\ \A e \in BagToSet(Added) : e = Entry(0, "FAILURE", err)

\* a failed commit of a full replace, logged
C2_Witness ==
    /\ Done
    /\ table = POSTING
    /\ err = "commit"
    /\ Len(df) > 0
    /\ Added = SetToBag({Entry(0, "FAILURE", "commit")})

\* C3 as stated: every call adds exactly one entry, SUCCESS or FAILURE.
C3_ExactlyOneEntry ==
    Done => /\ BagCardinality(Added) = 1
            /\ \A e \in BagToSet(Added) :
                  e.table_name = table /\ e.status \in {"SUCCESS", "FAILURE"}

\* C3 amended: a call adds nothing before its log_event, and then exactly
\* the one entry of its outcome when the write succeeds, nothing when the
\* write raises; never a SUCCESS and a FAILURE entry.
C3_AtMostOneEntry ==
    /\ (calls > 0 /\ pc # "idle") => Added = EmptyBag
    /\ Done =>
         /\ status \in {"SUCCESS", "FAILURE"}
         /\ IF logWrite = "ok"
            THEN Added = SetToBag({Entry(IF status = "SUCCESS" THEN Len(df) ELSE 0, status, err)})
            ELSE Added = EmptyBag

\* a failed load that left its one entry
C3_Witness ==
    /\ Done
    /\ status = "FAILURE"
    /\ logWrite = "ok"
    /\ BagCardinality(Added) = 1

C5_Idempotent ==
    (/\ Done
     /\ table \in PkTables
     /\ prev.valid
     /\ prev.status = "SUCCESS"
     /\ status = "SUCCESS")
    => db[table] = prev.after

\* the rows of vals the table accepts
Accepted(vals) == SelectIdx(vals, 1, (1..Len(vals)) \ Rejected(vals))

\* C6: after a load of ds.ft_posting_f that ended in SUCCESS the table holds
\* exactly the rows of the new file (those the table accepts) and none of
\* the rows it held before.
C6_FullReplace ==
    (Done /\ table = POSTING /\ status = "SUCCESS")
    => db[POSTING] = InsertAll(POSTING, EmptyBag, Accepted(Values(df)), 1)

\* the date texts that denote a calendar date
ValidDates == {"01.01.2018", "02.01.2018"}

DateOk(r) == r.date \in ValidDates

\* the (date, currency_rk) pairs that two rows of the file share
SharedKeys(rows) ==
    {<<ParseDate(rows[m].date), rows[m].rk>> : m \in
        {k \in 1..Len(rows) : /\ DateOk(rows[k])
                              /\ \E n \in 1..Len(rows) :
                                    /\ n # k
                                    /\ DateOk(rows[n])
                                    /\ ParseDate(rows[n].date) = ParseDate(rows[k].date)
                                    /\ rows[n].rk = rows[k].rk}}

RowsOfKey(content, key) == {r \in BagToSet(content) : KeyOf(r) = key}

\* C7: a load of ds.md_exchange_rate_d from a file that has two rows of one
\* (data_actual_date, currency_rk), and no row the table rejects, leaves
\* exactly one row of that pair in the table, and its entry is SUCCESS with
\* the number of rows left after deduplication.
C7_ExchangeDedup ==
    (/\ Done
     /\ table = EXCHANGE
     /\ err = ""
     /\ logWrite = "ok"
     /\ SharedKeys(csv.rows) # {}
     /\ \A n \in 1..Len(csv.rows) : ~csv.rows[n].viol)
    => /\ \A key \in SharedKeys(csv.rows) :
             /\ Cardinality(RowsOfKey(db[EXCHANGE], key)) = 1
             /\ \A r \in RowsOfKey(db[EXCHANGE], key) : CopiesIn(r, db[EXCHANGE]) = 1
       /\ Added = SetToBag({Entry(Len(df), "SUCCESS", "")})
       /\ Len(df) = Cardinality({<<ParseDate(csv.rows[n].date), csv.rows[n].rk>> :
                                    n \in {k \in 1..Len(csv.rows) : DateOk(csv.rows[k])}})

\* a row that fails the currency checks, judged on the file's text
RawBad(r) == r.code \notin NumericText \/ r.iso = <<>> \/ Len(IsoReduce(r.iso)) # 3

\* the validation of a ds.md_currency_d file has run
Validated == calls > 0 /\ table = CURRENCY /\ pc # "prepare" /\ csv.readable

Audited(n) ==
    \E k \in 1..Len(audit) :
       audit[k].table = CURRENCY /\ audit[k].line = n + 1 /\ audit[k].reasons # <<>>

NeverSent(n) == \A v \in sent : v.idx # n - 1

\* C8 as stated: every row of a ds.md_currency_d file that fails a currency
\* check is written to bad_rows.log with a reason and is handed to no
\* insert statement.
C8_EveryBadRowAudited ==
    Validated => \A n \in 1..Len(csv.rows) :
                    RawBad(csv.rows[n]) => (Audited(n) /\ NeverSent(n))

\* C8 amended: every failing row is handed to no insert statement and is
\* not stored; it is written to bad_rows.log with a reason when its date
\* columns parse (a row with an unparsable date is dropped before the
\* validation and leaves no line).
C8_Quarantine ==
    Validated =>
       /\ \A n \in 1..Len(csv.rows) :
             RawBad(csv.rows[n]) =>
                /\ NeverSent(n)
                /\ DateOk(csv.rows[n]) => Audited(n)
       /\ \A v \in sent : v.code.kind = "num" /\ Len(v.iso) = 3
       /\ \A r \in BagToSet(db[CURRENCY]) \cup BagToSet(pend[CURRENCY]) :
             r.code.kind = "num" /\ Len(r.iso) = 3

\* a file with a failing row and a passing row, the passing row stored
C8_Witness ==
    /\ Done
    /\ table = CURRENCY
    /\ status = "SUCCESS"
    /\ bulkOk
    /\ Len(df) = 1
    /\ \E n \in 1..Len(csv.rows) : RawBad(csv.rows[n]) /\ DateOk(csv.rows[n]) /\ Audited(n)
    /\ db[CURRENCY] # before[CURRENCY]

\* C9: a file row with an unparsable or empty date is dropped before the
\* insertion: it is in no insert statement, not stored, and not counted in
\* the row_count of the entry.
C9_BadDatesDropped ==
    (calls > 0 /\ pc # "prepare") =>
       /\ \A n \in 1..Len(csv.rows) :
             ~DateOk(csv.rows[n]) =>
                /\ \A m \in 1..Len(df) : df[m].idx # n - 1
                /\ NeverSent(n)
       /\ \A v \in sent : v.date # NULL /\ v.date \notin {"n/a", ""}
       /\ \A r \in BagToSet(db[table]) \cup BagToSet(pend[table]) :
             r.date # NULL /\ r.date \notin {"n/a", ""}
       /\ \A e \in BagToSet(Added) :
             e.status = "SUCCESS" =>
                e.row_count <= Cardinality({n \in 1..Len(csv.rows) : DateOk(csv.rows[n])})

\* a file with a dated and an undated row, loaded and logged with one row
C9_Witness ==
    /\ Done
    /\ bulkOk
    /\ Len(csv.rows) = 2
    /\ \E n \in 1..Len(csv.rows) : ~DateOk(csv.rows[n])
    /\ Added = SetToBag({Entry(1, "SUCCESS", "")})
    /\ db[table] # before[table]

\* C10: a load that follows a load whose log write raised has the outcome
\* it has on a connection whose log write succeeded: when it ends in
\* SUCCESS and all its rows are acceptable, its rows are in the table.
C10_LogFailureHarmless ==
    (/\ Done
     /\ prev.valid
     /\ prev.logWrite = "execute"
     /\ status = "SUCCESS"
     /\ ~BulkRaises(table, Values(df)))
    => db[table] = InsertAll(table, IF table = POSTING THEN EmptyBag ELSE before[table],
                             Values(df), 1)

\* the encoding of highest priority under which every cell of the file
\* decodes, the order written out: utf-8, then cp1251, then ISO-8859-1
FirstEncoding(file) ==
    IF \A n \in 1..Len(file.rows) : Decodes(file.rows[n].iso, "utf-8") THEN "utf-8"
    ELSE IF \A n \in 1..Len(file.rows) : Decodes(file.rows[n].iso, "cp1251") THEN "cp1251"
    ELSE "ISO-8859-1"

\* C11: the frame a load works on is the parse of the file under the first
\* of utf-8, cp1251, ISO-8859-1 that decodes it, and so are the rows it
\* sends; a file that cannot be read at all ends the load in FAILURE, and
\* no load of a readable file fails on reading.
C11_EncodingFallback ==
    (calls > 0 /\ pc # "prepare") =>
       IF csv.readable
       THEN /\ err \notin {"read", "encodings"}
            /\ table # CURRENCY =>
                  /\ \A m \in 1..Len(df) :
                        df[m].iso = Decode(csv.rows[df[m].idx + 1].iso, FirstEncoding(csv))
                  /\ \A v \in sent :
                        v.iso = ConvertIso(Decode(csv.rows[v.idx + 1].iso, FirstEncoding(csv)))
       ELSE /\ err = "read"
            /\ df = <<>>
            /\ pc = "idle" => status = "FAILURE"

\* a file with a cell that utf-8 rejects and cp1251 decodes, loaded and
\* stored as the cp1251 character
C11_Witness ==
    /\ Done
    /\ bulkOk
    /\ status = "SUCCESS"
    /\ FirstEncoding(csv) = "cp1251"
    /\ \E r \in BagToSet(db[table]) : r.iso = <<"CYR-TSE">>

\* the new batch alone, as ds.ft_posting_f stores it
NewBatch == InsertAll(POSTING, EmptyBag, Values(df), 1)

\* C12: at every moment of a load of ds.ft_posting_f the committed table
\* holds either the rows from before the load or exactly the new batch;
\* when an insert of the batch raised it holds the rows from before, and
\* until the commit the deletion is visible in the transaction only.
C12_ReplaceAtomic ==
    (table = POSTING /\ calls > 0) =>
       /\ \/ db[POSTING] = before[POSTING]
          \/ pc \in {"log_success", "idle"} /\ err = "" /\ db[POSTING] = NewBatch
       /\ (failed_rows > 0 \/ err # "") => db[POSTING] = before[POSTING]
       /\ pc \in {"bulk", "rows", "commit"} => db[POSTING] = before[POSTING]

\* a first load that replaced the old rows by the rows of the file
C12_Witness ==
    /\ Done
    /\ table = POSTING
    /\ calls = 1
    /\ status = "SUCCESS"
    /\ before[POSTING] # EmptyBag
    /\ Len(df) > 0
    /\ db[POSTING] = NewBatch
    /\ db[POSTING] # before[POSTING]

\* the statements of one kind in the trace of the current call
OpsOf(op) == SelectSeq(trace, LAMBDA o : o.op = op)

\* the row-by-row loop has been left
RowsLeft == pc \in {"commit", "log_success", "idle"} /\ OpsOf("bulk") # <<>>

\* C13: a row-level insert runs only after the bulk insert of the call
\* raised; the k-th row-level insert is for the k-th row of the batch, so
\* once the loop is left each row was tried exactly once and in order, a
\* raising row not stopping the later ones; failed_rows is the number of
\* row-level inserts that raised; after a bulk insert that returned there
\* is no row-level insert.
C13_LoaderStateMachine ==
    calls > 0 =>
       /\ Len(OpsOf("bulk")) <= 1
       /\ (pc = "rows" \/ OpsOf("row") # <<>>) =>
             /\ ~bulkOk
             /\ OpsOf("bulk") = <<Op("bulk", 0, TRUE)>>
       /\ bulkOk => OpsOf("row") = <<>> /\ failed_rows = 0
       /\ Len(OpsOf("row")) <= Len(df)
       /\ \A k \in 1..Len(OpsOf("row")) : OpsOf("row")[k].n = df[k].idx + 1
       /\ pc = "rows" => Len(OpsOf("row")) = i - 1
       /\ (RowsLeft /\ ~bulkOk) => Len(OpsOf("row")) = Len(df)
       /\ failed_rows = Cardinality({k \in 1..Len(OpsOf("row")) : OpsOf("row")[k].raised})

\* a batch of two rows whose bulk insert raised: both rows tried, in order,
\* both counted as failed
C13_Witness ==
    /\ Done
    /\ ~bulkOk
    /\ Len(df) = 2
    /\ OpsOf("row") = <<Op("row", df[1].idx + 1, TRUE), Op("row", df[2].idx + 1, TRUE)>>
    /\ failed_rows = 2

\* the file rows that reached the currency checks and failed one
FailedChecks == {n \in 1..Len(csv.rows) : DateOk(csv.rows[n]) /\ RawBad(csv.rows[n])}

\* C14: a load of a ds.md_currency_d file with rows that fail the checks,
\* when no statement of its own was refused for a fatal reason and its log
\* entry was written, is logged SUCCESS with row_count the number of rows
\* that passed, and every row that passed is in the table with its
\* code_iso_char in the reduced three-letter upper-case form.
C14_ValidationNonFatal ==
    (/\ Done
     /\ table = CURRENCY
     /\ csv.readable
     /\ FailedChecks # {}
     /\ err = ""
     /\ logWrite = "ok")
    => /\ Added = SetToBag({Entry(Len(df), "SUCCESS", "")})
       /\ \A m \in 1..Len(df) :
             /\ df[m].iso = IsoReduce(csv.rows[df[m].idx + 1].iso)
             /\ Len(df[m].iso) = 3
             /\ BagIn(Stored(Values(df)[m]), db[CURRENCY])

\* the content the inserts of the current call led to: inside the
\* transaction before the commit, committed after it
Loaded == IF pc = "commit" THEN pend[table] ELSE db[table]

\* what the inserts started from
Base == IF table = POSTING THEN EmptyBag ELSE before[table]

\* the rows of the batch that are stored as r
Arrivals(r) == {n \in 1..Len(df) : Stored(Values(df)[n]) = r}

\* C15: after a bulk insert that returned, in a table with a primary key
\* each key of the batch has exactly one row, the incoming one, and the
\* rows of other keys are as they were; in ds.ft_posting_f, which has no
\* key, every row of the batch is added, whatever its key, and nothing
\* else changes.
C15_UpsertLastWriteWins ==
    (pc \in {"commit", "log_success", "idle"} /\ bulkOk /\ err = "") =>
       IF table \in PkTables
       THEN /\ \A n \in 1..Len(df) :
                  /\ RowsOfKey(Loaded, KeyOf(Values(df)[n])) = {Stored(Values(df)[n])}
                  /\ CopiesIn(Stored(Values(df)[n]), Loaded) = 1
            /\ \A r \in BagToSet(Base) \cup BagToSet(Loaded) :
                  (\A n \in 1..Len(df) : KeyOf(Values(df)[n]) # KeyOf(r))
                     => CopiesIn(r, Loaded) = CopiesIn(r, Base)
       ELSE \A r \in BagToSet(Base) \cup BagToSet(Loaded) :
               CopiesIn(r, Loaded) = CopiesIn(r, Base) + Cardinality(Arrivals(r))

\* a committed upsert onto a stored row of the same key and other values,
\* the stored row of another key untouched
C15_Witness ==
    /\ Done
    /\ status = "SUCCESS"
    /\ bulkOk
    /\ table \in PkTables
    /\ \E n \in 1..Len(df) : \E r \in BagToSet(before[table]) :
          /\ KeyOf(r) = KeyOf(Values(df)[n])
          /\ r # Stored(Values(df)[n])
          /\ ~BagIn(r, db[table])
          /\ BagIn(Stored(Values(df)[n]), db[table])
    /\ BagIn(OldRow(3), db[table])

\* the number of rows the cleaning leaves of the file: the rows whose dates
\* parse, for ds.md_exchange_rate_d one per key, for ds.md_currency_d at
\* most those that fail no check on the file's text
CleanedCount(n) ==
    LET dated == {k \in 1..Len(csv.rows) : DateOk(csv.rows[k])}
    IN  CASE table = EXCHANGE ->
               n = Cardinality({<<ParseDate(csv.rows[k].date), csv.rows[k].rk>> : k \in dated})
          [] table = CURRENCY -> n <= Cardinality(dated \ FailedChecks)
          [] OTHER -> n = Cardinality(dated)

\* every row of the batch is in the table, one stored row each
BatchStored ==
    /\ \A n \in 1..Len(df) : BagIn(Stored(Values(df)[n]), db[table])
    /\ table \in PkTables => DistinctKeys(Values(df))
    /\ table = POSTING => BagCardinality(db[POSTING]) = Len(df)

\* C16 as stated: a load whose bulk insert returned is committed and has
\* the entry SUCCESS with row_count the number of rows of the cleaned
\* frame, each of them stored.
C16_FastPathRowCount ==
    (Done /\ bulkOk) =>
       /\ Added = SetToBag({Entry(Len(df), "SUCCESS", "")})
       /\ CleanedCount(Len(df))
       /\ BatchStored

\* C16 amended: after a bulk insert that returned, conn.commit() either
\* raises, and the load is rolled back and handed to the log as FAILURE,
\* or returns, and every row of the cleaned frame is stored and the load is
\* handed to the log as SUCCESS with row_count the number of rows of the
\* frame; the entry is in the log table when the log write did not raise.
C16_FastPathUnlessFault ==
    (Done /\ bulkOk) =>
       /\ err \in {"", "commit"}
       /\ CleanedCount(Len(df))
       /\ err = "commit" =>
             /\ status = "FAILURE"
             /\ db = before
             /\ Added \in {EmptyBag, SetToBag({Entry(0, "FAILURE", "commit")})}
       /\ err = "" =>
             /\ status = "SUCCESS"
             /\ BatchStored
             /\ logWrite = "ok" => Added = SetToBag({Entry(Len(df), "SUCCESS", "")})
             /\ logWrite # "ok" => Added = EmptyBag

\* a bulk insert of two rows, committed and logged with row_count 2
C16_Witness ==
    /\ Done
    /\ bulkOk
    /\ Len(df) = 2
    /\ BatchStored
    /\ db[table] # before[table]
    /\ Added = SetToBag({Entry(2, "SUCCESS", "")})

\* C17: when a load begins and when it has returned, the connection is in
\* no transaction, open or aborted.
C17_TransactionScoping ==
    calls > 0 =>
       /\ txAtCall = "idle"
       /\ pc = "idle" => tx = "idle"

\* the last statement the call ran on the connection
LastOp == trace[Len(trace)]

\* C18: a step that adds an entry to LOGS.etl_log adds the one entry of the
\* call, runs outside any transaction of the data and leaves the tables
\* as they are; the statement before it is the conn.commit() that
\* returned, for a SUCCESS entry, or the conn.rollback(), for a FAILURE
\* entry, and a FAILURE entry is committed while the tables hold what they
\* held when the call began.
C18_LogAfterData ==
    [][log' # log =>
          /\ tx = "idle" /\ tx' = "idle"
          /\ db' = db /\ pend = db
          /\ trace # <<>>
          /\ \/ /\ log' = log (+) SetToBag({Entry(Len(df), "SUCCESS", "")})
                /\ LastOp = Op("commit", 0, FALSE)
             \/ /\ log' = log (+) SetToBag({Entry(0, "FAILURE", err)})
                /\ LastOp = Op("rollback", 0, FALSE)
                /\ db' = before]_vars

\* a load whose commit raised after a bulk insert: rolled back, the tables
\* as before, and the FAILURE entry in the log table
C18_Witness ==
    /\ Done
    /\ bulkOk
    /\ Len(df) > 0
    /\ err = "commit"
    /\ OpsOf("rollback") # <<>>
    /\ db = before
    /\ Added = SetToBag({Entry(0, "FAILURE", "commit")})

\* C19: during and after a call of load_table every destination table
\* other than the one of the call holds, committed and inside the
\* transaction, what it held when the call began, and a DELETE is run only
\* by a load of ds.ft_posting_f.
C19_Frame ==
    calls > 0 =>
       /\ \A t \in Tables \ {table} : db[t] = before[t] /\ pend[t] = before[t]
       /\ OpsOf("delete") # <<>> => table = POSTING

\* main after the load of ds.ft_posting_f: the DELETE has run, the table is
\* replaced, ds.ft_balance_f keeps what its own load before stored
C19_Witness ==
    /\ Done
    /\ table = POSTING
    /\ OpsOf("delete") = <<Op("delete", 0, FALSE)>>
    /\ status = "SUCCESS"
    /\ db[POSTING] # before[POSTING]
    /\ db[BALANCE] # InitDB[BALANCE]
    /\ \A t \in Tables \ {POSTING} : db[t] = before[t]

====
